---- MODULE Spec2Model ----
(***************************************************************************)
(* A model of asn1ate's semantic model builder (asn1ate/sema.py): the two  *)
(* dependency sorters, automatic tagging, the Module resolvers, the        *)
(* numbering of value lists, Imports, and the counter of unnamed members.  *)
(*                                                                         *)
(* Python sets have no defined iteration order: wherever the code iterates *)
(* a set (references()), the model takes every order.  Dicts keep their    *)
(* insertion order, and the model keeps it too.                            *)
(***************************************************************************)
EXTENDS Integers, Sequences, FiniteSets, TLC

VARIABLES
    assignments,        \* the list handed to a sorter: <<[name, refs]>>
    graph,              \* topological_sort: name -> references() (a dict)
    roots,              \* topological_sort: the stack of roots
    topological_order,  \* topological_sort: the order of reference names
    tpc,                \* topological_sort: "loop", "done" or "raised"
    tresult,            \* topological_sort: the returned list
    plain,              \* the same run on the list without outside references
    dgraph,             \* dependency_sort: name -> list of successors
    index,              \* dependency_sort: the depth index of each visited node
    lowlinks,           \* dependency_sort: the lowlink of each visited node
    index_counter,      \* dependency_sort: the smallest unused index
    stack,              \* dependency_sort: the nodes in progress
    result,             \* dependency_sort: the components emitted so far
    frames,             \* dependency_sort: the calls of strongconnect in progress
    cursor,             \* dependency_sort: the place of the driver's for loop
    dpc,                \* dependency_sort: "build", "loop" or "done"
    modules,            \* build_semantic_model: root, the list of Modules
    components,         \* ConstructedType object -> its list of components
    before,             \* components as the node factory built them
    module_at,          \* build_semantic_model: the place of the loop over root
    pending,            \* build_semantic_model: the ConstructedTypes still to visit
    calls,              \* ConstructedType object -> calls of auto_tag() so far
    after_first,        \* ConstructedType object -> components after its first call
    bpc,                \* build_semantic_model: "tagging" or "built"
    user_types_cache,   \* Module -> its _user_types dict
    rcall,              \* the Module method called on modules[1] and its arguments
    rself,              \* resolve_type_decl: the module the current call runs on
    rdecl,              \* resolve_type_decl: the type_decl of the current call
    rresult,            \* what the method returned, or the error it raised
    rpc,                \* "ready", "resolving", "returned" or "raised"
    written_values,     \* ValueListType: the named values as the node factory built them
    named_values,       \* ValueListType: self.named_values
    vidx,               \* ValueListType.__init__: the place of the numbering loop
    vpc,                \* "idle", "numbering", "built" or "raised"
    first_result,       \* dependency_sort: what the run before this one returned
    runs,               \* dependency_sort: the runs on this list that have returned
    clauses,            \* Imports.__init__: elements, the import clauses
    imports,            \* Imports.imports: the dict, as its items in insertion order
    ipos,               \* Imports.__init__: the place of the loop over elements
    ipc,                \* "idle", "loop" or "built"
    rdepth,             \* resolve_type_decl: the calls in progress, one inside the other
    unnamed_counter,    \* the global _unnamed_counter
    upc,                \* thread -> its place in _get_next_unnamed: "idle", "load", "store" or "format"
    loaded,             \* thread -> the value of the counter it has read for the increment
    ucalls,             \* thread -> the calls of _get_next_unnamed it has begun
    names,              \* the names returned, in the order of the returns
    overlapped          \* a call has begun while another was in progress

topoVars == <<graph, roots, topological_order, tpc, tresult, plain>>
depVars == <<dgraph, index, lowlinks, index_counter, stack, result, frames, cursor, dpc>>
tagVars == <<modules, components, before, module_at, pending, calls, after_first, bpc>>
resVars == <<user_types_cache, rcall, rself, rdecl, rresult, rpc>>
valVars == <<written_values, named_values, vidx, vpc>>
runVars == <<first_result, runs>>
impVars == <<clauses, imports, ipos, ipc>>
stackVars == <<rdepth>>
ctrVars == <<unnamed_counter, upc, loaded, ucalls, names, overlapped>>
vars == <<assignments, topoVars, depVars, tagVars, resVars, valVars, runVars, impVars, stackVars, ctrVars>>

(***************************************************************************)
(* Bounds of the model.                                                    *)
(***************************************************************************)
MaxAssign == 3
MaxEdges == 4
MaxComponents == 3
MaxNested == 2
MaxCalls == 2
MaxValues == 3
MaxClauses == 3
\* The interpreter's limit on calls in progress, scaled to the model.
RecursionLimit == 8
MaxUnnamed == 2

\* Names are ranked by their place here; the place is the alphabetical order.
NamePool == <<"A", "B", "C", "D", "E", "F">>
\* A name no assignment of the list defines (an imported or a built-in name).
OutsideNames == {"X"}

NoneVal == [k |-> "None"]

(***************************************************************************)
(* Helpers on sequences and sets.                                          *)
(***************************************************************************)
Range(s) == {s[i] : i \in DOMAIN s}
Front(s) == SubSeq(s, 1, Len(s) - 1)
Min(a, b) == IF a <= b THEN a ELSE b

\* Every order a set can be iterated in.
Orders(S) ==
    {p \in [1..Cardinality(S) -> S] : \A i, j \in DOMAIN p : p[i] = p[j] => i = j}

(***************************************************************************)
(* The inputs of the sorters: n assignments with distinct reference names, *)
(* in the order of their names, each with a set of references to names of  *)
(* the list or outside it, at most MaxEdges references in all.  The sorters*)
(* read names only for equality (and dependency_sort for its alphabetical  *)
(* order), so every list order is one of these up to renaming.             *)
(***************************************************************************)
NamesOf(n) == {NamePool[i] : i \in 1..n}

\* acc extended by assignments i..n whose references number at most budget.
RECURSIVE IsInput(_, _, _, _, _)
IsInput(as, acc, i, n, budget) ==
    IF i > n THEN as = acc
    ELSE \E r \in SUBSET (NamesOf(n) \cup OutsideNames) :
            /\ Cardinality(r) <= budget
            /\ IsInput(as, Append(acc, [name |-> NamePool[i], refs |-> r]),
                       i + 1, n, budget - Cardinality(r))

reference_name(a) == a.name
references(a) == a.refs

Names == {reference_name(assignments[i]) : i \in DOMAIN assignments}

(***************************************************************************)
(* The reference graph restricted to the list, and what an assignment      *)
(* references directly or transitively.                                    *)
(***************************************************************************)
DirectRefs(n) ==
    LET a == CHOOSE b \in Range(assignments) : reference_name(b) = n
    IN  references(a) \cap Names

RECURSIVE Closure(_)
Closure(S) ==
    LET S2 == S \cup UNION {DirectRefs(x) : x \in S}
    IN  IF S2 = S THEN S ELSE Closure(S2)

TransRefs(n) == Closure(DirectRefs(n))
Cyclic == \E n \in Names : n \in TransRefs(n)

(***************************************************************************)
(* topological_sort                                                        *)
(***************************************************************************)
BuggyHasPredecessor(g, node) == \E k \in DOMAIN g : k # node /\ node \in g[k]

has_predecessor(g, node) == \E k \in DOMAIN g : node \in g[k]

\* graph = dict((a.reference_name(), a.references()) for a in assignments)
MakeGraph(as) ==
    [n \in {reference_name(as[i]) : i \in DOMAIN as} |->
        references(CHOOSE b \in Range(as) : reference_name(b) = n)]

\* roots = [name for name in graph.keys() if not has_predecessor(name)]
InitialRoots(as) ==
    LET keys == [i \in DOMAIN as |-> reference_name(as[i])]
    IN  SelectSeq(keys, LAMBDA n : ~has_predecessor(MakeGraph(as), n))

\* graph.pop(root, set()): the successors, and the graph without the root
Successors(g, root) == IF root \in DOMAIN g THEN g[root] ELSE {}
GraphPop(g, root) == [k \in DOMAIN g \ {root} |-> g[k]]

\* the successors that have no predecessor left once the root is removed
NewRoots(g, root) ==
    {s \in Successors(g, root) : ~has_predecessor(GraphPop(g, root), s)}

PopStepAppend(run, p) ==
    LET root == run.roots[Len(run.roots)]
    IN  [graph |-> GraphPop(run.graph, root),
         roots |-> Front(run.roots) \o p,
         order |-> Append(run.order, root)]

\* One turn of the while loop, the new roots appended in the order p:
\* root = roots.pop(); successors = graph.pop(root, set()); roots.extend(...);
\* topological_order.insert(0, root)
PopStep(run, p) ==
    LET root == run.roots[Len(run.roots)]
    IN  [graph |-> GraphPop(run.graph, root),
         roots |-> Front(run.roots) \o p,
         order |-> <<root>> \o run.order]

\* topological_order.index(name), which raises when the name is absent
Present(order, n) == \E i \in DOMAIN order : order[i] = n
Index(order, n) ==
    (CHOOSE i \in DOMAIN order : order[i] = n /\ \A j \in 1..(i - 1) : order[j] # n) - 1

RECURSIVE SortedDescending(_, _)
SortedDescending(as, order) ==
    IF as = <<>> THEN <<>>
    ELSE LET rest == SortedDescending(Front(as), order)
             a == as[Len(as)]
             key == Index(order, reference_name(a))
             k == Cardinality({i \in DOMAIN rest :
                                 Index(order, reference_name(rest[i])) >= key})
         IN  SubSeq(rest, 1, k) \o <<a>> \o SubSeq(rest, k + 1, Len(rest))

\* sorted(assignments, key=...): a stable sort
RECURSIVE SortedByIndex(_, _)
SortedByIndex(as, order) ==
    IF as = <<>> THEN <<>>
    ELSE LET rest == SortedByIndex(Front(as), order)
             a == as[Len(as)]
             key == Index(order, reference_name(a))
             k == Cardinality({i \in DOMAIN rest :
                                 Index(order, reference_name(rest[i])) <= key})
         IN  SubSeq(rest, 1, k) \o <<a>> \o SubSeq(rest, k + 1, Len(rest))

\* The list with the references to outside names dropped.
WithoutOutside(as) ==
    [i \in DOMAIN as |->
        [name |-> as[i].name,
         refs |-> as[i].refs \cap {reference_name(as[j]) : j \in DOMAIN as}]]

StartRun(as) == [graph |-> MakeGraph(as), roots |-> InitialRoots(as), order |-> <<>>]

TopoIdle ==
    /\ graph = <<>> /\ roots = <<>> /\ topological_order = <<>>
    /\ tpc = "idle" /\ tresult = <<>> /\ plain = NoneVal

DepIdle ==
    /\ dgraph = <<>> /\ index = <<>> /\ lowlinks = <<>> /\ index_counter = 0
    /\ stack = <<>> /\ result = <<>> /\ frames = <<>> /\ cursor = 0 /\ dpc = "idle"

TagIdle ==
    /\ modules = <<>> /\ components = <<>> /\ before = <<>> /\ module_at = 0
    /\ pending = <<>> /\ calls = <<>> /\ after_first = <<>> /\ bpc = "idle"

ResIdle ==
    /\ user_types_cache = <<>> /\ rcall = NoneVal /\ rself = 0 /\ rdecl = NoneVal
    /\ rresult = NoneVal /\ rpc = "idle"

ValIdle == written_values = <<>> /\ named_values = <<>> /\ vidx = 0 /\ vpc = "idle"

RunIdle == first_result = <<>> /\ runs = 0

ImpIdle == clauses = <<>> /\ imports = <<>> /\ ipos = 0 /\ ipc = "idle"

StackIdle == rdepth = 0

CtrIdle ==
    /\ unnamed_counter = 0 /\ upc = <<>> /\ loaded = <<>> /\ ucalls = <<>>
    /\ names = <<>> /\ overlapped = FALSE

TopoInit ==
    /\ DepIdle /\ TagIdle /\ ResIdle /\ ValIdle /\ RunIdle /\ ImpIdle /\ StackIdle /\ CtrIdle
    /\ \E n \in 1..MaxAssign : IsInput(assignments, <<>>, 1, n, MaxEdges)
    /\ graph = MakeGraph(assignments)
    /\ roots = InitialRoots(assignments)
    /\ topological_order = <<>>
    /\ tpc = "loop"
    /\ tresult = <<>>
    /\ plain = StartRun(WithoutOutside(assignments))

\* while roots: root = roots.pop(); ...; topological_order.insert(0, root)
TopoPop ==
    /\ tpc = "loop"
    /\ roots # <<>>
    /\ LET root == roots[Len(roots)]
           run == [graph |-> graph, roots |-> roots, order |-> topological_order]
       IN  \E p \in Orders(NewRoots(graph, root)) :
             LET next == PopStep(run, p)
                 inside == SelectSeq(p, LAMBDA n : n \in Names)
             IN  /\ graph' = next.graph
                 /\ roots' = next.roots
                 /\ topological_order' = next.order
                 \* the run without outside references takes its own turn when
                 \* the root is a name of the list, iterating in the same order
                 /\ IF root \in Names /\ plain.roots # <<>>
                    THEN \E q \in Orders(NewRoots(plain.graph,
                                                  plain.roots[Len(plain.roots)])) :
                           /\ inside \in Orders(NewRoots(plain.graph,
                                                 plain.roots[Len(plain.roots)]))
                                 => q = inside
                           /\ plain' = PopStep(plain, q)
                    ELSE plain' = plain
    /\ UNCHANGED <<assignments, tpc, tresult, depVars, tagVars, resVars, valVars, runVars, impVars,
                   stackVars, ctrVars>>

\* if graph: raise Exception("Can't sort cyclic references")
TopoRaise ==
    /\ tpc = "loop"
    /\ roots = <<>>
    /\ DOMAIN graph # {}
    /\ tpc' = "raised"
    /\ UNCHANGED <<assignments, graph, roots, topological_order, tresult, plain, depVars, tagVars, resVars,
                   valVars, runVars, impVars, stackVars, ctrVars>>

\* return sorted(assignments, key=lambda a: topological_order.index(...))
TopoReturn ==
    /\ tpc = "loop"
    /\ roots = <<>>
    /\ DOMAIN graph = {}
    /\ IF \A n \in Names : Present(topological_order, n)
       THEN /\ tpc' = "done"
            /\ tresult' = SortedByIndex(assignments, topological_order)
       ELSE /\ tpc' = "raised"
            /\ tresult' = tresult
    /\ UNCHANGED <<assignments, graph, roots, topological_order, plain, depVars, tagVars, resVars,
                   valVars, runVars, impVars, stackVars, ctrVars>>

TopoNext == TopoPop \/ TopoRaise \/ TopoReturn

SpecTopo == TopoInit /\ [][TopoNext]_vars

(***************************************************************************)
(* What the run without outside references returns, once it has ended.     *)
(***************************************************************************)
PlainResult ==
    IF plain.roots = <<>> /\ DOMAIN plain.graph = {}
       /\ \A n \in Names : Present(plain.order, n)
    THEN [i \in DOMAIN assignments |->
            reference_name(SortedByIndex(WithoutOutside(assignments), plain.order)[i])]
    ELSE <<"unfinished">>

ResultNames == [i \in DOMAIN tresult |-> reference_name(tresult[i])]

IsPermutation(s, t) ==
    /\ Len(s) = Len(t)
    /\ \A x \in Range(t) :
         Cardinality({i \in DOMAIN s : s[i] = x}) = Cardinality({i \in DOMAIN t : t[i] = x})

\* C1: for an acyclic list with distinct names, topological_sort returns a
\* permutation of the list in which every assignment comes after every
\* assignment it references directly or transitively, and the returned list is
\* the one the same run returns when the references to names outside the list
\* are removed.
C1_DependenciesFirst ==
    (tpc \in {"done", "raised"} /\ ~Cyclic) =>
        /\ tpc = "done"
        /\ IsPermutation(tresult, assignments)
        /\ \A i, j \in DOMAIN tresult :
             reference_name(tresult[j]) \in TransRefs(reference_name(tresult[i])) => j < i
        /\ ResultNames = PlainResult

\* A returned list of three assignments A -> B -> C (A references B, B
\* references C), one of them also referencing an outside name.
C1_Witness ==
    /\ tpc = "done"
    /\ Len(tresult) = 3
    /\ \E a, b, c \in Names :
         /\ b \in DirectRefs(a) /\ c \in DirectRefs(b) /\ c \notin DirectRefs(a)
    /\ \E i \in DOMAIN assignments : references(assignments[i]) \cap OutsideNames # {}

\* C12 as stated: the list topological_sort returns is a permutation of its
\* argument in which every assignment that an assignment depends on
\* (transitively) stands at a later index: dependencies after dependants.
C12_DependenciesAfter ==
    tpc = "done" =>
        /\ IsPermutation(tresult, assignments)
        /\ \A i, j \in DOMAIN tresult :
             reference_name(tresult[j]) \in TransRefs(reference_name(tresult[i])) => j > i

\* C12, amended: the list topological_sort returns is a permutation of its
\* argument in which every assignment that an assignment depends on
\* (transitively) stands at an earlier index: dependencies before dependants.
C12_DependenciesBefore ==
    tpc = "done" =>
        /\ IsPermutation(tresult, assignments)
        /\ \A i, j \in DOMAIN tresult :
             reference_name(tresult[j]) \in TransRefs(reference_name(tresult[i])) => j < i

\* A returned list whose argument names a dependant before its dependency:
\* the sort has moved the dependency to the front.
C12_Witness ==
    /\ tpc = "done"
    /\ Len(assignments) >= 2
    /\ reference_name(assignments[2]) \in DirectRefs(reference_name(assignments[1]))
    /\ tresult # assignments

\* C2: topological_sort raises the cyclic-references error, and returns no list,
\* exactly when the reference graph restricted to the names of the list has a
\* cycle; on an acyclic graph it returns.
C2_RaisesIffCyclic ==
    tpc \in {"done", "raised"} =>
        /\ (tpc = "raised") <=> Cyclic
        /\ tpc = "raised" => (tresult = <<>> /\ DOMAIN graph # {})

\* The error raised for a cycle that is only reachable from an acyclic root,
\* with an outside reference in the list.
C2_Witness ==
    /\ tpc = "raised"
    /\ \E r, n \in Names : r \notin TransRefs(r) /\ n \in TransRefs(r) /\ n \in TransRefs(n)
    /\ \E i \in DOMAIN assignments : references(assignments[i]) \cap OutsideNames # {}

(***************************************************************************)
(* dependency_sort: Tarjan's strongly connected components.  The recursion *)
(* of strongconnect is kept as a stack of frames [node, i]: the call for   *)
(* node is at the i-th entry of its successors.                            *)
(***************************************************************************)
DepInit ==
    /\ TopoIdle /\ TagIdle /\ ResIdle /\ ValIdle /\ RunIdle /\ ImpIdle /\ StackIdle /\ CtrIdle
    /\ \E n \in 1..MaxAssign : IsInput(assignments, <<>>, 1, n, MaxEdges)
    /\ dgraph = <<>> /\ index = <<>> /\ lowlinks = <<>> /\ index_counter = 0
    /\ stack = <<>> /\ result = <<>> /\ frames = <<>> /\ cursor = 1 /\ dpc = "build"

\* assignments_by_name, and graph[assignment] = [assignments_by_name[r]
\* for r in references if r in assignments_by_name]: references is a set, so
\* the list may come in any order.
RECURSIVE IsGraphOf(_, _, _, _)
IsGraphOf(g, as, acc, i) ==
    IF i > Len(as) THEN g = acc
    ELSE LET by_name == {reference_name(as[j]) : j \in DOMAIN as}
         IN  \E successors \in Orders(references(as[i]) \cap by_name) :
                IsGraphOf(g, as, acc @@ (reference_name(as[i]) :> successors), i + 1)

DepBuildGraph ==
    /\ dpc = "build"
    /\ IsGraphOf(dgraph', assignments, <<>>, 1)
    /\ dpc' = "loop"
    /\ UNCHANGED <<assignments, topoVars, tagVars, resVars, index, lowlinks, index_counter, stack,
                   result, frames, cursor, valVars, runVars, impVars, stackVars,
                   ctrVars>>

\* sorted(graph.keys(), key=lambda a: a.reference_name()); NamePool is in
\* alphabetical order.
SortedKeys(g) == SelectSeq(NamePool, LAMBDA n : n \in DOMAIN g)

Put(d, key, v) == [k \in DOMAIN d \cup {key} |-> IF k = key THEN v ELSE d[k]]

\* The head of strongconnect(node): index, lowlink, counter, stack.append.
Enter(node) ==
    /\ index' = Put(index, node, index_counter)
    /\ lowlinks' = Put(lowlinks, node, index_counter)
    /\ index_counter' = index_counter + 1
    /\ stack' = Append(stack, node)
    /\ frames' = Append(frames, [node |-> node, i |-> 1])

\* for node in sorted(...): if node not in lowlinks: strongconnect(node)
DepDriverCall ==
    /\ dpc = "loop" /\ frames = <<>>
    /\ cursor <= Len(SortedKeys(dgraph))
    /\ SortedKeys(dgraph)[cursor] \notin DOMAIN lowlinks
    /\ Enter(SortedKeys(dgraph)[cursor])
    /\ cursor' = cursor + 1
    /\ UNCHANGED <<assignments, topoVars, tagVars, resVars, dgraph, result, dpc, valVars, runVars,
                   impVars, stackVars, ctrVars>>

DepDriverSkip ==
    /\ dpc = "loop" /\ frames = <<>>
    /\ cursor <= Len(SortedKeys(dgraph))
    /\ SortedKeys(dgraph)[cursor] \in DOMAIN lowlinks
    /\ cursor' = cursor + 1
    /\ UNCHANGED <<assignments, topoVars, tagVars, resVars, dgraph, index, lowlinks, index_counter,
                   stack, result, frames, dpc, valVars, runVars, impVars,
                   stackVars, ctrVars>>

TopFrame == frames[Len(frames)]
Advance(fs) == [fs EXCEPT ![Len(fs)].i = @ + 1]

\* if successor not in lowlinks: strongconnect(successor)
DepRecurse ==
    /\ dpc = "loop" /\ frames # <<>>
    /\ TopFrame.i <= Len(dgraph[TopFrame.node])
    /\ dgraph[TopFrame.node][TopFrame.i] \notin DOMAIN lowlinks
    /\ Enter(dgraph[TopFrame.node][TopFrame.i])
    /\ UNCHANGED <<assignments, topoVars, tagVars, resVars, dgraph, result, cursor, dpc, valVars,
                   runVars, impVars, stackVars, ctrVars>>

NoOnStackLowlink(ll, idx, node, successor) == ll[node]

\* lowlinks[node] = min(lowlinks[node], index[successor])
OnStackLowlink(ll, idx, node, successor) == Min(ll[node], idx[successor])

\* elif successor in stack: the successor is in the current component;
\* a visited successor that left the stack changes nothing
DepVisited ==
    /\ dpc = "loop" /\ frames # <<>>
    /\ TopFrame.i <= Len(dgraph[TopFrame.node])
    /\ LET node == TopFrame.node
           successor == dgraph[node][TopFrame.i]
       IN  /\ successor \in DOMAIN lowlinks
           /\ lowlinks' = IF successor \in Range(stack)
                          THEN [lowlinks EXCEPT
                                  ![node] = OnStackLowlink(lowlinks, index, node, successor)]
                          ELSE lowlinks
    /\ frames' = Advance(frames)
    /\ UNCHANGED <<assignments, topoVars, tagVars, resVars, dgraph, index, index_counter, stack,
                   result, cursor, dpc, valVars, runVars, impVars, stackVars,
                   ctrVars>>

\* while True: successor = stack.pop(); connected_component.append(successor);
\* if successor == node: break
RECURSIVE PopComponent(_, _, _)
PopComponent(stk, node, component) ==
    LET successor == stk[Len(stk)]
        popped == [stack |-> Front(stk), component |-> Append(component, successor)]
    IN  IF successor = node THEN popped
        ELSE PopComponent(popped.stack, node, popped.component)

EmitFirst(res, component) == <<component>> \o res

\* result.append(component)
Emit(res, component) == Append(res, component)

\* The end of strongconnect(node), and what the caller does on its return:
\* lowlinks[caller] = min(lowlinks[caller], lowlinks[node]).
DepReturn ==
    /\ dpc = "loop" /\ frames # <<>>
    /\ TopFrame.i > Len(dgraph[TopFrame.node])
    /\ LET node == TopFrame.node
           is_root == lowlinks[node] = index[node]
           popped == PopComponent(stack, node, <<>>)
           callers == Front(frames)
       IN  /\ stack' = IF is_root THEN popped.stack ELSE stack
           /\ result' = IF is_root THEN Emit(result, popped.component) ELSE result
           /\ IF callers = <<>>
              THEN /\ frames' = callers
                   /\ lowlinks' = lowlinks
              ELSE LET caller == callers[Len(callers)].node
                   IN  /\ frames' = Advance(callers)
                       /\ lowlinks' = [lowlinks EXCEPT
                                         ![caller] = Min(lowlinks[caller], lowlinks[node])]
    /\ UNCHANGED <<assignments, topoVars, tagVars, resVars, dgraph, index, index_counter, cursor, dpc,
                   valVars, runVars, impVars, stackVars, ctrVars>>

\* return result
DepDone ==
    /\ dpc = "loop" /\ frames = <<>>
    /\ cursor > Len(SortedKeys(dgraph))
    /\ dpc' = "done"
    /\ UNCHANGED <<assignments, topoVars, tagVars, resVars, dgraph, index, lowlinks, index_counter,
                   stack, result, frames, cursor, valVars, runVars, impVars,
                   stackVars, ctrVars>>

DepNext ==
    \/ DepBuildGraph
    \/ DepDriverCall
    \/ DepDriverSkip
    \/ DepRecurse
    \/ DepVisited
    \/ DepReturn
    \/ DepDone

SpecDep == DepInit /\ [][DepNext]_vars

\* The caller runs dependency_sort(assignments) again on the same list: a new
\* call of references() for every assignment, and new locals.
DepAgain ==
    /\ dpc = "done" /\ runs = 0
    /\ first_result' = result
    /\ runs' = 1
    /\ dgraph' = <<>> /\ index' = <<>> /\ lowlinks' = <<>> /\ index_counter' = 0
    /\ stack' = <<>> /\ result' = <<>> /\ frames' = <<>> /\ cursor' = 1 /\ dpc' = "build"
    /\ UNCHANGED <<assignments, topoVars, tagVars, resVars, valVars, impVars, stackVars, ctrVars>>

DepTwiceNext == DepNext \/ DepAgain

SpecDepTwice == DepInit /\ [][DepTwiceNext]_vars

\* The places <<i, j>> of a name in the returned tuples.
PlacesOf(n) ==
    {p \in UNION {{<<i, j>> : j \in DOMAIN result[i]} : i \in DOMAIN result} :
        result[p[1]][p[2]] = n}
TupleOf(n) == (CHOOSE p \in PlacesOf(n) : TRUE)[1]

\* C3: the tuples dependency_sort returns are the strongly connected components
\* of the reference graph restricted to the list: every assignment is in exactly
\* one tuple, once, and two distinct assignments share a tuple exactly when each
\* transitively references the other.
C3_TuplesAreComponents ==
    dpc = "done" =>
        /\ \A i \in DOMAIN result : Range(result[i]) \subseteq Names
        /\ \A n \in Names : Cardinality(PlacesOf(n)) = 1
        /\ \A a, b \in Names :
             a # b => ((TupleOf(a) = TupleOf(b)) <=> (b \in TransRefs(a) /\ a \in TransRefs(b)))

\* The mutually referencing pair A, B returned as one tuple, beside a third
\* assignment in a tuple of its own.
C3_Witness ==
    /\ dpc = "done"
    /\ Len(assignments) = 3
    /\ "B" \in DirectRefs("A") /\ "A" \in DirectRefs("B")
    /\ \E i \in DOMAIN result : Range(result[i]) = {"A", "B"}

\* C13: every one-element tuple dependency_sort returns holds an assignment
\* that lies on no reference cycle (it does not reference its own name, directly
\* or through others), and every assignment on a reference cycle is returned
\* in a tuple of more than one element.
C13_SingletonsAcyclic ==
    dpc = "done" =>
        /\ \A i \in DOMAIN result :
             Len(result[i]) = 1 => result[i][1] \notin TransRefs(result[i][1])
        /\ \A n \in Names :
             n \in TransRefs(n) => Len(result[TupleOf(n)]) > 1

\* The list of the single assignment A, which references its own name, has
\* been returned as the one-element tuple (A,).
C13_Witness ==
    /\ dpc = "done"
    /\ Len(assignments) = 1
    /\ DirectRefs("A") = {"A"}
    /\ result = <<(<<"A">>)>>

\* C14: two runs of dependency_sort on the same list return the same list of
\* tuples, in the same order and with the same order inside each tuple,
\* whatever order the sets of references are iterated in.
C14_Deterministic ==
    (dpc = "done" /\ runs = 1) => result = first_result

\* Two runs on A -> {B, C}, B, C have returned: the first with (B,) before
\* (C,), the second with (C,) before (B,).
C14_Witness ==
    /\ dpc = "done" /\ runs = 1
    /\ Len(assignments) = 3
    /\ DirectRefs("A") = {"B", "C"} /\ DirectRefs("B") = {} /\ DirectRefs("C") = {}
    /\ first_result = <<(<<"B">>), (<<"C">>), (<<"A">>)>>
    /\ result = <<(<<"C">>), (<<"B">>), (<<"A">>)>>

\* C4: in the returned list a tuple comes after every tuple it depends on: no
\* tuple is placed before a tuple that one of its assignments transitively
\* references.
C4_DependenciesFirst ==
    dpc = "done" =>
        \A i, j \in DOMAIN result :
            i < j => \A a \in Range(result[i]), b \in Range(result[j]) : b \notin TransRefs(a)

\* Three tuples returned for a chain in which the alphabetically first name
\* depends on the others, and one where it is the last name that does.
C4_Witness ==
    /\ dpc = "done"
    /\ Len(result) = 3
    /\ \/ "B" \in DirectRefs("A") /\ "C" \in DirectRefs("B")
       \/ "B" \in DirectRefs("C") /\ "A" \in DirectRefs("B")

(***************************************************************************)
(* Sema nodes.  A node is a record with its class in k and its attributes  *)
(* as fields, so that hasattr and isinstance read the record.  The str,    *)
(* int and None values of an attribute are wrapped (StrVal, IntVal,        *)
(* NoneVal) to stay comparable.  A ConstructedType node holds the identity *)
(* of its object in id; its list of components, which auto_tag() changes   *)
(* in place, is components[id].                                            *)
(***************************************************************************)
IMPLICIT == 0
EXPLICIT == 1
AUTOMATIC == 2

StrVal(s) == [k |-> "str", v |-> s]
IntVal(n) == [k |-> "int", v |-> n]

HasAttr(node, attr) == attr \in DOMAIN node
IsInstance(node, class) == node.k = class

ConstructedClasses == {"SequenceType", "SetType", "ChoiceType"}
IsConstructedType(node) == node.k \in ConstructedClasses

SimpleType(type_name) ==
    [k |-> "SimpleType", type_name |-> type_name, constraint |-> NoneVal]

DefinedType(module_name, type_name) ==
    [k |-> "DefinedType", module_name |-> module_name, type_name |-> type_name,
     constraint |-> NoneVal]

\* TaggedType.__init__ with four elements
TaggedType(elements) ==
    [k |-> "TaggedType",
     class_name |-> elements[1],
     class_number |-> elements[2],
     implicitness |-> IF elements[3] = StrVal("IMPLICIT") THEN IntVal(IMPLICIT)
                      ELSE IF elements[3] = StrVal("EXPLICIT") THEN IntVal(EXPLICIT)
                      ELSE NoneVal,
     type_decl |-> elements[4]]

ConstructedType(class, id) == [k |-> class, id |-> id]

ComponentType(identifier, type_decl) ==
    [k |-> "ComponentType", identifier |-> StrVal(identifier), type_decl |-> type_decl,
     default_value |-> NoneVal, optional |-> FALSE, components_of_type |-> NoneVal]

\* ComponentType.__init__ for COMPONENTS OF: identifier and type_decl stay None
ComponentsOf(type_decl) ==
    [k |-> "ComponentType", identifier |-> NoneVal, type_decl |-> NoneVal,
     default_value |-> NoneVal, optional |-> FALSE, components_of_type |-> type_decl]

NamedType(identifier, type_decl) ==
    [k |-> "NamedType", identifier |-> StrVal(identifier), type_decl |-> type_decl]

ExtensionMarker == [k |-> "ExtensionMarker"]

TypeAssignment(type_name, type_decl) ==
    [k |-> "TypeAssignment", type_name |-> type_name, type_decl |-> type_decl]

Module(name, tag_default, as) ==
    [k |-> "Module", name |-> name, tag_default |-> IntVal(tag_default), assignments |-> as]

\* str(n): the decimal digits, after a minus sign for n < 0
Digits == <<"0", "1", "2", "3", "4", "5", "6", "7", "8", "9">>
RECURSIVE str(_)
str(n) ==
    IF n < 0 THEN <<"-">> \o str(-n)
    ELSE IF n < 10 THEN <<Digits[n + 1]>>
    ELSE str(n \div 10) \o <<Digits[(n % 10) + 1]>>

\* int(s) for the text of a signed number
RECURSIVE int(_)
int(s) ==
    IF Head(s) = "-" THEN -int(Tail(s))
    ELSE IF Len(s) = 1 THEN (CHOOSE d \in 0..9 : Digits[d + 1] = s[1])
    ELSE 10 * int(SubSeq(s, 1, Len(s) - 1)) + int(<<s[Len(s)]>>)

(***************************************************************************)
(* ConstructedType.auto_tag                                                *)
(***************************************************************************)
\* children(): the SemaNode members and the SemaNodes of the list members; a
\* ConstructedType has type_name (a str) and components (a list of nodes)
children(comps) == SelectSeq(comps, LAMBDA c : HasAttr(c, "k"))

\* component_types = [c.type_decl for c in self.components if hasattr(c, 'type_decl')]
component_types(comps) ==
    LET with_decl == SelectSeq(comps, LAMBDA c : HasAttr(c, "type_decl"))
    IN  [i \in DOMAIN with_decl |-> with_decl[i].type_decl]

AllTagged(comps) ==
    \A i \in DOMAIN component_types(comps) : IsInstance(component_types(comps)[i], "TaggedType")

NeverTagged(comps) == FALSE

\* already_tagged = any(isinstance(c, TaggedType) for c in component_types)
already_tagged(comps) ==
    \E i \in DOMAIN component_types(comps) : IsInstance(component_types(comps)[i], "TaggedType")

TagNumberFromOne(comps, i) ==
    Cardinality({j \in 1..(i - 1) : HasAttr(children(comps)[j], "type_decl")}) + 1

\* enumerate([c for c in self.children() if hasattr(c, 'type_decl')]): the
\* number of the i-th child is the count of children with a type_decl before it
tag_number(comps, i) ==
    Cardinality({j \in 1..(i - 1) : HasAttr(children(comps)[j], "type_decl")})

\* The components after auto_tag().
auto_tag(comps) ==
    IF already_tagged(comps) THEN comps
    ELSE [i \in DOMAIN comps |->
            IF HasAttr(children(comps)[i], "type_decl")
            THEN [comps[i] EXCEPT !.type_decl =
                    TaggedType(<<NoneVal, StrVal(str(tag_number(comps, i))), NoneVal, @>>)]
            ELSE comps[i]]

(***************************************************************************)
(* build_semantic_model.  The node factory has built root; what is left is *)
(* the walk back through the modules for automatic tagging.                *)
(***************************************************************************)
\* The ConstructedType objects among a node and its descendants(), in pre-order.
RECURSIVE ConstructedIn(_, _)
ConstructedIn(node, table) ==
    LET RECURSIVE Below(_, _)
        Below(comps, i) ==
            IF i > Len(comps) THEN <<>>
            ELSE (IF HasAttr(comps[i], "type_decl")
                  THEN ConstructedIn(comps[i].type_decl, table) ELSE <<>>)
                 \o Below(comps, i + 1)
    IN  IF IsConstructedType(node) THEN <<node.id>> \o Below(table[node.id], 1)
        ELSE IF IsInstance(node, "TaggedType") THEN ConstructedIn(node.type_decl, table)
        ELSE <<>>

RECURSIVE ConstructedDescendants(_, _, _)
ConstructedDescendants(module, table, i) ==
    IF i > Len(module.assignments) THEN <<>>
    ELSE ConstructedIn(module.assignments[i].type_decl, table)
         \o ConstructedDescendants(module, table, i + 1)

\* What the parser can write for one component.
LeafShapes == {"named", "tagged", "marker", "components_of"}
ComponentShapes == LeafShapes \cup {"nested"}
Identifiers == <<"a", "b", "c", "d", "e", "f">>

\* The component the node factory builds for a shape at place i; a nested
\* constructed type is the object 2.
Component(shape, i) ==
    CASE shape = "named" -> ComponentType(Identifiers[i], SimpleType("INTEGER"))
      [] shape = "tagged" ->
            ComponentType(Identifiers[i],
                TaggedType(<<NoneVal, StrVal(<<"5">>), StrVal("EXPLICIT"), SimpleType("BOOLEAN")>>))
      [] shape = "marker" -> ExtensionMarker
      [] shape = "components_of" -> ComponentsOf(DefinedType(NoneVal, "Base"))
      [] shape = "nested" -> ComponentType(Identifiers[i], ConstructedType("SetType", 2))

Components(shapes) == [i \in DOMAIN shapes |-> Component(shapes[i], i)]

Nests(shapes) == {i \in DOMAIN shapes : shapes[i] = "nested"}

OuterShapes ==
    {sh \in UNION {[1..n -> ComponentShapes] : n \in 0..MaxComponents} :
        Cardinality(Nests(sh)) <= 1}
InnerShapes == UNION {[1..n -> LeafShapes] : n \in 0..MaxNested}

TagInit ==
    /\ TopoIdle /\ DepIdle /\ ResIdle /\ ValIdle /\ RunIdle /\ ImpIdle /\ StackIdle /\ CtrIdle
    /\ assignments = <<>>
    /\ \E tag_default \in {IMPLICIT, EXPLICIT, AUTOMATIC} :
         modules = <<Module("M", tag_default,
                        <<TypeAssignment("T", ConstructedType("SequenceType", 1))>>)>>
    /\ \E outer \in OuterShapes :
         \E inner \in (IF Nests(outer) = {} THEN {<<>>} ELSE InnerShapes) :
            components = IF Nests(outer) = {} THEN <<Components(outer)>>
                         ELSE <<Components(outer), Components(inner)>>
    /\ before = components
    /\ module_at = 1
    /\ pending = <<>>
    /\ calls = [id \in DOMAIN components |-> 0]
    /\ after_first = [id \in DOMAIN components |-> <<>>]
    /\ bpc = "tagging"

\* descendant.auto_tag(), and the record of the object's first call
Invoke(id) ==
    /\ components' = [components EXCEPT ![id] = auto_tag(@)]
    /\ calls' = [calls EXCEPT ![id] = @ + 1]
    /\ after_first' = IF calls[id] = 0
                      THEN [after_first EXCEPT ![id] = auto_tag(components[id])]
                      ELSE after_first

\* for module in root: if module.tag_default == TagImplicitness.AUTOMATIC:
\* module.descendants() is computed once, before the first auto_tag()
BuildModule ==
    /\ bpc = "tagging" /\ pending = <<>>
    /\ module_at <= Len(modules)
    /\ pending' = IF modules[module_at].tag_default = IntVal(AUTOMATIC)
                  THEN ConstructedDescendants(modules[module_at], components, 1)
                  ELSE <<>>
    /\ module_at' = module_at + 1
    /\ UNCHANGED <<assignments, topoVars, depVars, resVars, modules, components, before, calls,
                   after_first, bpc, valVars, runVars, impVars, stackVars,
                   ctrVars>>

\* if isinstance(descendant, ConstructedType): descendant.auto_tag()
BuildAutoTag ==
    /\ bpc = "tagging" /\ pending # <<>>
    /\ Invoke(Head(pending))
    /\ pending' = Tail(pending)
    /\ UNCHANGED <<assignments, topoVars, depVars, resVars, modules, before, module_at, bpc,
                   valVars, runVars, impVars, stackVars, ctrVars>>

\* return root
BuildReturn ==
    /\ bpc = "tagging" /\ pending = <<>>
    /\ module_at > Len(modules)
    /\ bpc' = "built"
    /\ UNCHANGED <<assignments, topoVars, depVars, resVars, modules, components, before, module_at,
                   pending, calls, after_first, valVars, runVars, impVars,
                   stackVars, ctrVars>>

\* A consumer of the model calls auto_tag() on a constructed type again.
CallAutoTag ==
    /\ bpc = "built"
    /\ \E id \in DOMAIN components :
         /\ calls[id] < MaxCalls
         /\ Invoke(id)
    /\ UNCHANGED <<assignments, topoVars, depVars, resVars, modules, before, module_at, pending, bpc,
                   valVars, runVars, impVars, stackVars, ctrVars>>

TagNext == BuildModule \/ BuildAutoTag \/ BuildReturn \/ CallAutoTag

SpecTag == TagInit /\ [][TagNext]_vars

(***************************************************************************)
(* Automatic tagging: what the claims speak of.                            *)
(***************************************************************************)
\* The ConstructedType objects of the modules with (or without) AUTOMATIC tags.
TypesOfModules(automatic) ==
    UNION {Range(ConstructedDescendants(modules[m], before, 1)) :
             m \in {n \in DOMAIN modules :
                      (modules[n].tag_default.v = AUTOMATIC) = automatic}}

\* A component that carries a type_decl: every component but an extension marker.
CarriesDecl(c) == c.k # "ExtensionMarker"
\* The parser built the type with a TaggedType as the type_decl of a component.
HasTaggedComponent(comps) ==
    \E i \in DOMAIN comps : CarriesDecl(comps[i]) /\ comps[i].type_decl.k = "TaggedType"
\* The i-th component wraps what it held before in a tag with this number.
WrappedAs(id, i, number) ==
    /\ components[id][i].type_decl.k = "TaggedType"
    /\ components[id][i].type_decl.class_number = StrVal(str(number))
    /\ components[id][i].type_decl.type_decl = before[id][i].type_decl
\* How many tags wrap a declaration.
RECURSIVE TagDepth(_)
TagDepth(decl) == IF decl.k = "TaggedType" THEN 1 + TagDepth(decl.type_decl) ELSE 0

\* C5 as stated: after build_semantic_model, every constructed type of an
\* AUTOMATIC module either had a user-written tagged component, or every
\* component with a type_decl is wrapped in a TaggedType whose class_number is
\* the component's zero-based index in the list of components.
C5_TagIsComponentIndex ==
    bpc = "built" =>
        \A id \in TypesOfModules(TRUE) :
            \/ HasTaggedComponent(before[id])
            \/ \A i \in DOMAIN components[id] :
                 CarriesDecl(before[id][i]) => WrappedAs(id, i, i - 1)

\* C5 as amended: ... whose class_number is the string form of the number of
\* components with a type_decl attribute before it (extension markers are not
\* counted, COMPONENTS OF entries are counted and wrapped too).
C5_TagIsOrdinal ==
    bpc = "built" =>
        \A id \in TypesOfModules(TRUE) :
            \/ HasTaggedComponent(before[id])
            \/ \A i \in DOMAIN components[id] :
                 /\ CarriesDecl(before[id][i]) =>
                      WrappedAs(id, i, Cardinality({j \in 1..(i - 1) : CarriesDecl(before[id][j])}))
                 /\ ~CarriesDecl(before[id][i]) => components[id][i] = before[id][i]

\* An AUTOMATIC module built: its type has an extension marker before a named
\* component and a COMPONENTS OF entry, and a nested type was tagged as well.
C5_Witness ==
    /\ bpc = "built"
    /\ modules[1].tag_default.v = AUTOMATIC
    /\ ~HasTaggedComponent(before[1])
    /\ \E i, j \in DOMAIN before[1] :
         /\ i < j
         /\ before[1][i].k = "ExtensionMarker"
         /\ CarriesDecl(before[1][j])
         /\ before[1][j].identifier # NoneVal
    /\ \E i \in DOMAIN before[1] :
         CarriesDecl(before[1][i]) /\ before[1][i].identifier = NoneVal
    /\ 2 \in DOMAIN components
    /\ ~HasTaggedComponent(before[2])
    /\ components[2] # before[2]

\* C6: a call of auto_tag() on a constructed type one of whose components has
\* a TaggedType as its type_decl changes no component of it, and no step of
\* build_semantic_model changes a constructed type of a module whose
\* tag_default is not AUTOMATIC.
C6_TaggedTypesUntouched ==
    [][/\ \A id \in DOMAIN components :
            HasTaggedComponent(components[id]) => components'[id] = components[id]
       /\ bpc = "tagging" =>
            \A id \in TypesOfModules(FALSE) : components'[id] = before[id]]_vars

\* An AUTOMATIC module built, and auto_tag() called again, on a type with a
\* user-written tag on one component and none on another.
C6_Witness ==
    /\ bpc = "built"
    /\ modules[1].tag_default.v = AUTOMATIC
    /\ calls[1] = 2
    /\ HasTaggedComponent(before[1])
    /\ \E i \in DOMAIN before[1] :
         CarriesDecl(before[1][i]) /\ before[1][i].type_decl.k # "TaggedType"
    /\ components[1] = before[1]

\* C7: auto_tag() is idempotent: after a second call the components of a
\* constructed type are those after its first call, and no component is ever
\* wrapped in more than one tag it did not have.
C7_AutoTagIdempotent ==
    \A id \in DOMAIN components :
        /\ calls[id] >= 2 => components[id] = after_first[id]
        /\ \A i \in DOMAIN components[id] :
             CarriesDecl(components[id][i]) =>
                TagDepth(components[id][i].type_decl) <= TagDepth(before[id][i].type_decl) + 1

\* auto_tag() called twice on a type without user-written tags, with an
\* extension marker and a COMPONENTS OF entry: the first call tagged it.
C7_Witness ==
    /\ calls[1] = 2
    /\ components[1] # before[1]
    /\ \E i \in DOMAIN before[1] : before[1][i].k = "ExtensionMarker"
    /\ \E i \in DOMAIN before[1] :
         CarriesDecl(before[1][i]) /\ before[1][i].identifier = NoneVal

(***************************************************************************)
(* Module.user_types, resolve_type_decl, resolve_selection_type and        *)
(* resolve_tag_implicitness, called on modules[1] of a built model.        *)
(***************************************************************************)
SelectionType(identifier, type_decl) ==
    [k |-> "SelectionType", identifier |-> StrVal(identifier), type_decl |-> type_decl]

\* isinstance(type_decl, ReferencedType): DefinedType and SelectionType
IsReferencedType(node) == node.k \in {"DefinedType", "SelectionType"}

\* TaggedType and SelectionType expose the type_name of the type they wrap
RECURSIVE type_name(_)
type_name(node) ==
    IF node.k \in {"TaggedType", "SelectionType"} THEN type_name(node.type_decl)
    ELSE node.type_name

\* not x, for a str or None
Falsy(x) == x = NoneVal \/ x = StrVal("")

Raised(class, what) == [status |-> "raise", value |-> [k |-> class, what |-> what]]
Returned(value) == [status |-> "return", value |-> value]

\* The dict user_types() fills: every type assignment by name, the last wins.
IndexTypes(as) ==
    LET types == {i \in DOMAIN as : as[i].k = "TypeAssignment"}
    IN  [n \in {as[i].type_name : i \in types} |->
            as[CHOOSE i \in types :
                  as[i].type_name = n /\ \A j \in types : as[j].type_name = n => j <= i].type_decl]

\* user_types(): _user_types is filled when it is empty
user_types(cache, m) ==
    IF DOMAIN cache[m] = {} THEN IndexTypes(modules[m].assignments) ELSE cache[m]
Memoised(cache, m) == [cache EXCEPT ![m] = user_types(cache, m)]

\* for ref_mod in referenced_modules: if ref_mod.name == type_decl.module_name
RECURSIVE FindModule(_, _, _)
FindModule(referenced_modules, module_name, i) ==
    IF i > Len(referenced_modules) THEN 0
    ELSE IF StrVal(modules[referenced_modules[i]].name) = module_name
         THEN referenced_modules[i]
         ELSE FindModule(referenced_modules, module_name, i + 1)

ResolveOneSameDecl(self, type_decl, referenced_modules, cache) ==
    IF ~IsReferencedType(type_decl) THEN Returned(type_decl)
    ELSE IF ~HasAttr(type_decl, "module_name") THEN Raised("AttributeError", "module_name")
    ELSE LET module == IF Falsy(type_decl.module_name)
                          \/ type_decl.module_name = StrVal(modules[self].name)
                       THEN self
                       ELSE FindModule(referenced_modules, type_decl.module_name, 1)
         IN  IF module = 0 THEN Raised("Exception", "Unrecognized referenced module")
             ELSE IF type_name(type_decl) \notin DOMAIN user_types(cache, module)
                  THEN [status |-> "raise", value |-> [k |-> "KeyError", what |-> "type_name"],
                        cache |-> Memoised(cache, module)]
                  ELSE [status |-> "recurse", self |-> module, value |-> type_decl,
                        cache |-> Memoised(cache, module)]

\* One call of resolve_type_decl on the module self: it returns, raises, or
\* calls resolve_type_decl of the owning module on the looked-up declaration.
ResolveOne(self, type_decl, referenced_modules, cache) ==
    IF ~IsReferencedType(type_decl) THEN Returned(type_decl)
    ELSE IF ~HasAttr(type_decl, "module_name") THEN Raised("AttributeError", "module_name")
    ELSE LET module == IF Falsy(type_decl.module_name)
                          \/ type_decl.module_name = StrVal(modules[self].name)
                       THEN self
                       ELSE FindModule(referenced_modules, type_decl.module_name, 1)
         IN  IF module = 0 THEN Raised("Exception", "Unrecognized referenced module")
             ELSE IF type_name(type_decl) \notin DOMAIN user_types(cache, module)
                  THEN [status |-> "raise", value |-> [k |-> "KeyError", what |-> "type_name"],
                        cache |-> Memoised(cache, module)]
                  ELSE [status |-> "recurse", self |-> module,
                        value |-> user_types(cache, module)[type_name(type_decl)],
                        cache |-> Memoised(cache, module)]

\* for named_type in choice_type.components: if named_type.identifier == ...
RECURSIVE ScanComponents(_, _, _)
ScanComponents(comps, identifier, i) ==
    IF i > Len(comps) THEN Returned(NoneVal)
    ELSE IF ~HasAttr(comps[i], "identifier") THEN Raised("AttributeError", "identifier")
    ELSE IF comps[i].identifier = identifier THEN Returned(comps[i].type_decl)
    ELSE ScanComponents(comps, identifier, i + 1)

\* resolve_selection_type, with get_type_decl
SelectionResult(self, selection_type_decl, cache) ==
    IF ~IsInstance(selection_type_decl, "SelectionType")
    THEN Raised("Exception", "Expected SelectionType")
    ELSE LET name == type_name(selection_type_decl.type_decl)
             types == user_types(cache, self)
         IN  IF name \notin DOMAIN types THEN Raised("KeyError", "type_name")
             ELSE IF ~IsConstructedType(types[name])
                  THEN Raised("AttributeError", "components")
                  ELSE ScanComponents(components[types[name].id],
                                      selection_type_decl.identifier, 1)

TruthyImplicitness(tag_implicitness, tagged_type_decl, tag_default) ==
    IF tag_implicitness # NoneVal /\ tag_implicitness # IntVal(0) THEN tag_implicitness
    ELSE IF IsInstance(tagged_type_decl, "ChoiceType") THEN IntVal(EXPLICIT)
    ELSE IF tag_default = NoneVal THEN IntVal(EXPLICIT)
    ELSE IF tag_default = IntVal(AUTOMATIC) THEN IntVal(IMPLICIT)
    ELSE tag_default

\* resolve_tag_implicitness on a module with this tag_default
resolve_tag_implicitness(tag_implicitness, tagged_type_decl, tag_default) ==
    IF tag_implicitness # NoneVal THEN tag_implicitness
    ELSE IF IsInstance(tagged_type_decl, "ChoiceType") THEN IntVal(EXPLICIT)
    ELSE IF tag_default = NoneVal THEN IntVal(EXPLICIT)
    ELSE IF tag_default = IntVal(AUTOMATIC) THEN IntVal(IMPLICIT)
    ELSE tag_default

(***************************************************************************)
(* The models the resolvers are called on: module M with A, B and the      *)
(* CHOICE C, and module N with B and C.  The alternatives of the CHOICE    *)
(* are NamedTypes and extension markers, automatically tagged when M has   *)
(* AUTOMATIC tags.                                                         *)
(***************************************************************************)
TheChoice == ConstructedType("ChoiceType", 1)
DeclsA ==
    {DefinedType(NoneVal, "A"), DefinedType(NoneVal, "B"), DefinedType(StrVal("N"), "B"), DefinedType(StrVal("M"), "B"),
     DefinedType(StrVal("Z"), "B"), DefinedType(NoneVal, "U"),
     SelectionType("a", DefinedType(NoneVal, "C"))}
DeclsB == {SimpleType("INTEGER"), DefinedType(NoneVal, "A"), DefinedType(NoneVal, "C")}
DeclsNB == {SimpleType("REAL"), DefinedType(NoneVal, "C"), DefinedType(StrVal("M"), "B")}

AlternativeTypes == <<"INTEGER", "BOOLEAN", "NULL", "REAL", "UTF8String", "IA5String">>
Alternative(shape, i) ==
    IF shape = "marker" THEN ExtensionMarker
    ELSE NamedType(Identifiers[i], SimpleType(AlternativeTypes[i]))
AlternativeLists ==
    {[i \in DOMAIN sh |-> Alternative(sh[i], i)] :
        sh \in UNION {[1..n -> {"named", "marker"}] : n \in 0..MaxComponents}}

\* The arguments of the calls.
ResolveArguments ==
    {DefinedType(NoneVal, "A"), DefinedType(StrVal("N"), "B"), SimpleType("INTEGER"),
     SelectionType("a", DefinedType(NoneVal, "C")), TheChoice}
ReferencedModuleLists == {<<>>, <<2>>, <<2, 1>>}
SelectionArguments ==
    {SelectionType(id, DefinedType(NoneVal, n)) : id \in {"a", "b", "z"}, n \in {"C", "B"}}
        \cup {DefinedType(NoneVal, "C")}
ImplicitnessArguments == {NoneVal, IntVal(IMPLICIT), IntVal(EXPLICIT)}
TaggedArguments ==
    {TheChoice, SimpleType("INTEGER"), DefinedType(NoneVal, "C"),
     ConstructedType("SequenceType", 1)}

ResInit ==
    /\ TopoIdle /\ DepIdle /\ ValIdle /\ RunIdle /\ ImpIdle /\ StackIdle /\ CtrIdle
    /\ assignments = <<>>
    /\ \E tag_default \in {IMPLICIT, EXPLICIT, AUTOMATIC}, a \in DeclsA, b \in DeclsB,
          nb \in DeclsNB, alternatives \in AlternativeLists :
         /\ modules =
              <<Module("M", tag_default,
                    <<TypeAssignment("A", a), TypeAssignment("B", b),
                      TypeAssignment("C", TheChoice)>>),
                Module("N", EXPLICIT,
                    <<TypeAssignment("B", nb), TypeAssignment("C", SimpleType("BOOLEAN"))>>)>>
         /\ before = <<alternatives>>
         /\ components = <<IF tag_default = AUTOMATIC THEN auto_tag(alternatives)
                           ELSE alternatives>>
    /\ module_at = 3 /\ pending = <<>> /\ bpc = "built"
    /\ calls = <<0>> /\ after_first = <<<<>>>>
    /\ user_types_cache = <<<<>>, <<>>>>
    /\ rcall = NoneVal /\ rself = 0 /\ rdecl = NoneVal /\ rresult = NoneVal
    /\ rpc = "ready"

Call(op, tag_implicitness, arg, referenced_modules) ==
    [op |-> op, tag_implicitness |-> tag_implicitness, arg |-> arg,
     referenced_modules |-> referenced_modules]

\* modules[1].resolve_type_decl(type_decl, referenced_modules) is called
CallResolveTypeDecl ==
    /\ rpc = "ready"
    /\ \E type_decl \in ResolveArguments, referenced_modules \in ReferencedModuleLists :
         /\ rcall' = Call("resolve_type_decl", NoneVal, type_decl, referenced_modules)
         /\ rdecl' = type_decl
    /\ rself' = 1
    /\ rdepth' = 1
    /\ rpc' = "resolving"
    /\ UNCHANGED <<assignments, topoVars, depVars, tagVars, user_types_cache, rresult, valVars,
                   runVars, impVars, ctrVars>>

Resolving == ResolveOne(rself, rdecl, rcall.referenced_modules, user_types_cache)

\* return module.resolve_type_decl(module.user_types()[...], referenced_modules)
ResolveRecurse ==
    /\ rpc = "resolving"
    /\ Resolving.status = "recurse"
    /\ rdepth < RecursionLimit
    /\ rself' = Resolving.self
    /\ rdecl' = Resolving.value
    /\ rdepth' = rdepth + 1
    /\ user_types_cache' = Resolving.cache
    /\ UNCHANGED <<assignments, topoVars, depVars, tagVars, rcall, rresult, rpc, valVars, runVars,
                   impVars, ctrVars>>

\* the call that would exceed the interpreter's recursion limit raises
ResolveOverflow ==
    /\ rpc = "resolving"
    /\ Resolving.status = "recurse"
    /\ rdepth = RecursionLimit
    /\ rresult' = [k |-> "RecursionError", what |-> "maximum recursion depth exceeded"]
    /\ rpc' = "raised"
    /\ user_types_cache' = Resolving.cache
    /\ UNCHANGED <<assignments, topoVars, depVars, tagVars, rcall, rself, rdecl, valVars,
                   runVars, impVars, stackVars, ctrVars>>

\* else: return type_decl
ResolveReturn ==
    /\ rpc = "resolving"
    /\ Resolving.status = "return"
    /\ rresult' = Resolving.value
    /\ rpc' = "returned"
    /\ UNCHANGED <<assignments, topoVars, depVars, tagVars, user_types_cache, rcall, rself,
                   rdecl, valVars, runVars, impVars, stackVars, ctrVars>>

\* an exception leaves every call in progress
ResolveRaise ==
    /\ rpc = "resolving"
    /\ Resolving.status = "raise"
    /\ rresult' = Resolving.value
    /\ rpc' = "raised"
    /\ user_types_cache' = IF HasAttr(Resolving, "cache") THEN Resolving.cache
                           ELSE user_types_cache
    /\ UNCHANGED <<assignments, topoVars, depVars, tagVars, rcall, rself, rdecl, valVars, runVars,
                   impVars, stackVars, ctrVars>>

\* modules[1].resolve_selection_type(selection_type_decl)
CallResolveSelectionType ==
    /\ rpc = "ready"
    /\ \E selection_type_decl \in SelectionArguments :
         LET outcome == SelectionResult(1, selection_type_decl, user_types_cache)
         IN  /\ rcall' = Call("resolve_selection_type", NoneVal, selection_type_decl, <<>>)
             /\ rresult' = outcome.value
             /\ rpc' = IF outcome.status = "return" THEN "returned" ELSE "raised"
             /\ user_types_cache' = IF IsInstance(selection_type_decl, "SelectionType")
                                    THEN Memoised(user_types_cache, 1)
                                    ELSE user_types_cache
    /\ UNCHANGED <<assignments, topoVars, depVars, tagVars, rself, rdecl, valVars, runVars,
                   impVars, stackVars, ctrVars>>

\* modules[1].resolve_tag_implicitness(tag_implicitness, tagged_type_decl)
CallResolveTagImplicitness ==
    /\ rpc = "ready"
    /\ \E tag_implicitness \in ImplicitnessArguments, tagged_type_decl \in TaggedArguments :
         /\ rcall' = Call("resolve_tag_implicitness", tag_implicitness, tagged_type_decl, <<>>)
         /\ rresult' = resolve_tag_implicitness(tag_implicitness, tagged_type_decl,
                                                modules[1].tag_default)
    /\ rpc' = "returned"
    /\ UNCHANGED <<assignments, topoVars, depVars, tagVars, user_types_cache, rself, rdecl,
                   valVars, runVars, impVars, stackVars, ctrVars>>

ResNext ==
    \/ CallResolveTypeDecl
    \/ ResolveRecurse
    \/ ResolveOverflow
    \/ ResolveReturn
    \/ ResolveRaise
    \/ CallResolveSelectionType
    \/ CallResolveTagImplicitness

SpecResolve == ResInit /\ [][ResNext]_vars

\* A call in progress keeps running: the interpreter executes its next step.
ResolveRun == ResolveRecurse \/ ResolveOverflow \/ ResolveReturn \/ ResolveRaise
\* The models for the runs to completion: the alternatives of the CHOICE and
\* the tag default play no part in resolve_type_decl.
ResFairInit ==
    /\ ResInit
    /\ modules[1].tag_default = IntVal(EXPLICIT)
    /\ Len(before[1]) <= 1
SpecResolveFair == ResFairInit /\ [][ResNext]_vars /\ WF_vars(ResolveRun)

(***************************************************************************)
(* Claims about the resolvers                                              *)
(***************************************************************************)
CallOf(op) == rcall # NoneVal /\ rcall.op = op

\* C8: resolve_tag_implicitness returns the written implicitness when one is
\* written (IMPLICIT on a CHOICE included); otherwise EXPLICIT for a
\* ChoiceType; otherwise IMPLICIT when the module default is AUTOMATIC;
\* otherwise the module default.  The result is IMPLICIT or EXPLICIT.
C8_TagImplicitnessCascade ==
    (rpc = "returned" /\ CallOf("resolve_tag_implicitness")) =>
        /\ rresult \in {IntVal(IMPLICIT), IntVal(EXPLICIT)}
        /\ rcall.tag_implicitness # NoneVal => rresult = rcall.tag_implicitness
        /\ rcall.tag_implicitness = NoneVal =>
             IF rcall.arg.k = "ChoiceType" THEN rresult = IntVal(EXPLICIT)
             ELSE IF modules[1].tag_default = IntVal(AUTOMATIC) THEN rresult = IntVal(IMPLICIT)
             ELSE rresult = modules[1].tag_default

\* A written IMPLICIT on a CHOICE has been returned as written.
C8_Witness ==
    /\ rpc = "returned" /\ CallOf("resolve_tag_implicitness")
    /\ rcall.tag_implicitness = IntVal(IMPLICIT)
    /\ rcall.arg.k = "ChoiceType"
    /\ modules[1].tag_default = IntVal(EXPLICIT)
    /\ rresult = IntVal(IMPLICIT)

\* The chain of a declaration as the claim reads it: a DefinedType or a
\* SelectionType names a type of the module itself when it carries no module
\* name or the module's own, and of the referenced module of that name
\* otherwise; the chain ends at the first declaration that is neither.
\* An acyclic chain names every type assignment at most once.
ChainFuel == 1 + Len(modules[1].assignments) + Len(modules[2].assignments)
RECURSIVE ChainEnd(_, _, _, _)
ChainEnd(self, type_decl, referenced_modules, fuel) ==
    IF type_decl.k \notin {"DefinedType", "SelectionType"} THEN [ends |-> TRUE, at |-> type_decl]
    ELSE IF fuel = 0 THEN [ends |-> FALSE]
    ELSE LET named == IF HasAttr(type_decl, "module_name") THEN type_decl.module_name
                      ELSE NoneVal
             owners == IF named = NoneVal \/ named = StrVal(modules[self].name) THEN {self}
                       ELSE {referenced_modules[i] : i \in
                               {j \in DOMAIN referenced_modules :
                                  StrVal(modules[referenced_modules[j]].name) = named}}
             found == {m \in owners : \E i \in DOMAIN modules[m].assignments :
                          modules[m].assignments[i].type_name = type_name(type_decl)}
         IN  IF found = {} THEN [ends |-> FALSE]
             ELSE LET m == CHOOSE x \in found : TRUE
                      i == CHOOSE x \in DOMAIN modules[m].assignments :
                              modules[m].assignments[x].type_name = type_name(type_decl)
                  IN  ChainEnd(m, modules[m].assignments[i].type_decl, referenced_modules,
                               fuel - 1)

\* C9: resolve_type_decl follows a DefinedType or a SelectionType to the
\* module that owns the name and resolves what it finds there, so that the
\* call on a resolvable acyclic chain returns the declaration the chain ends
\* at, which is not a ReferencedType; a declaration that is not a
\* ReferencedType is returned unchanged.
C9_ResolvesReferencedTypes ==
    (CallOf("resolve_type_decl")
        /\ ChainEnd(1, rcall.arg, rcall.referenced_modules, ChainFuel).ends) =>
        /\ rpc # "raised"
        /\ rpc = "returned" =>
             /\ rresult = ChainEnd(1, rcall.arg, rcall.referenced_modules, ChainFuel).at
             /\ rresult.k \notin {"DefinedType", "SelectionType"}

\* The call on the SelectionType a < C, with C a CHOICE of the module, has
\* raised AttributeError: a SelectionType has no module_name.
C9_Witness ==
    /\ rpc = "raised" /\ CallOf("resolve_type_decl")
    /\ rcall.arg = SelectionType("a", DefinedType(NoneVal, "C"))
    /\ rresult = [k |-> "AttributeError", what |-> "module_name"]

\* The components of the CHOICE C of modules[1] that carry this identifier
NamedAlternatives(identifier) ==
    {i \in DOMAIN components[1] :
        /\ HasAttr(components[1][i], "identifier")
        /\ components[1][i].identifier = identifier}

\* C10: for a SelectionType id < C with C the CHOICE of the module,
\* resolve_selection_type returns the type_decl of the component whose
\* identifier is id, and None when there is none, whatever the components
\* are; it does not raise.
C10_SelectionNeverFails ==
    (CallOf("resolve_selection_type")
        /\ rcall.arg.k = "SelectionType"
        /\ type_name(rcall.arg.type_decl) = "C") =>
        /\ rpc = "returned"
        /\ IF NamedAlternatives(rcall.arg.identifier) = {} THEN rresult = NoneVal
           ELSE \E i \in NamedAlternatives(rcall.arg.identifier) :
                   rresult = components[1][i].type_decl

\* The call for b < C has raised AttributeError at an extension marker that
\* stands before the alternative b.
C10_Witness ==
    /\ rpc = "raised" /\ CallOf("resolve_selection_type")
    /\ rcall.arg = SelectionType("b", DefinedType(NoneVal, "C"))
    /\ Len(components[1]) = 2
    /\ components[1][1].k = "ExtensionMarker"
    /\ NamedAlternatives(StrVal("b")) = {2}
    /\ rresult = [k |-> "AttributeError", what |-> "identifier"]

(***************************************************************************)
(* ValueListType.__init__: the numbering of the named values               *)
(***************************************************************************)
\* NamedValue.__init__: value is None when only the identifier is written
NamedValue(identifier, value) ==
    [k |-> "NamedValue", identifier |-> StrVal(identifier), value |-> value]

\* The numbers a member can be written with, as the parser hands them over.
WrittenNumbers == {<<"5">>, <<"9">>, <<"-", "1">>, <<"-", "1", "0">>, <<"0", "0", "7">>}

\* The nodes the node factory can build for the members at place i.
MembersAt(i) ==
    {NamedValue(Identifiers[i], NoneVal), ExtensionMarker}
        \cup {NamedValue(Identifiers[i], StrVal(v)) : v \in WrittenNumbers}

ValInit ==
    /\ TopoIdle /\ DepIdle /\ TagIdle /\ ResIdle /\ RunIdle /\ ImpIdle /\ StackIdle /\ CtrIdle
    /\ assignments = <<>>
    /\ \E n \in 0..MaxValues :
         /\ written_values \in [1..n -> UNION {MembersAt(i) : i \in 1..n}]
         /\ \A i \in 1..n : written_values[i] \in MembersAt(i)
    /\ named_values = written_values
    /\ vidx = 1
    /\ vpc = "numbering"

PreviousValue(values, i) == str(int(values[i - 1].value.v) + 1)

\* if isinstance(n, NamedValue) and n.value is None
Unnumbered(n) == IsInstance(n, "NamedValue") /\ n.value = NoneVal

\* n.value = str(0), or str(int(self.named_values[idx - 1].value) + 1)
NumberValue ==
    /\ vpc = "numbering" /\ vidx <= Len(named_values)
    /\ Unnumbered(named_values[vidx])
    /\ vidx > 1 => HasAttr(named_values[vidx - 1], "value")
    /\ named_values' =
         [named_values EXCEPT ![vidx].value =
            StrVal(IF vidx = 1 THEN str(0) ELSE PreviousValue(named_values, vidx))]
    /\ vidx' = vidx + 1
    /\ UNCHANGED <<assignments, topoVars, depVars, tagVars, resVars, written_values, vpc, runVars,
                   impVars, stackVars, ctrVars>>

\* the members the loop passes over
KeepValue ==
    /\ vpc = "numbering" /\ vidx <= Len(named_values)
    /\ ~Unnumbered(named_values[vidx])
    /\ vidx' = vidx + 1
    /\ UNCHANGED <<assignments, topoVars, depVars, tagVars, resVars, written_values,
                   named_values, vpc, runVars, impVars, stackVars, ctrVars>>

\* self.named_values[idx - 1].value of a node that has no value attribute
NumberRaise ==
    /\ vpc = "numbering" /\ vidx <= Len(named_values)
    /\ Unnumbered(named_values[vidx])
    /\ vidx > 1 /\ ~HasAttr(named_values[vidx - 1], "value")
    /\ vpc' = "raised"
    /\ UNCHANGED <<assignments, topoVars, depVars, tagVars, resVars, written_values,
                   named_values, vidx, runVars, impVars, stackVars, ctrVars>>

\* the loop is over and the constructor returns
ValReturn ==
    /\ vpc = "numbering" /\ vidx > Len(named_values)
    /\ vpc' = "built"
    /\ UNCHANGED <<assignments, topoVars, depVars, tagVars, resVars, written_values,
                   named_values, vidx, runVars, impVars, stackVars, ctrVars>>

ValNext == NumberValue \/ KeepValue \/ NumberRaise \/ ValReturn

SpecValues == ValInit /\ [][ValNext]_vars

\* C11: the constructor numbers every named value written without a value: 0
\* for the first member, otherwise one more than the number of the member
\* right before it; a member written with a value keeps it.
C11_SequentialNumbers ==
    /\ vpc # "raised"
    /\ vpc = "built" =>
         \A i \in DOMAIN written_values :
            written_values[i].k = "NamedValue" =>
               IF written_values[i].value # NoneVal
               THEN named_values[i].value = written_values[i].value
               ELSE /\ named_values[i].value # NoneVal
                    /\ i = 1 => int(named_values[i].value.v) = 0
                    /\ i > 1 => /\ named_values[i - 1].k = "NamedValue"
                                /\ int(named_values[i].value.v) =
                                     int(named_values[i - 1].value.v) + 1

\* The constructor has raised AttributeError on { a, ..., c }: the member
\* before c is an extension marker, which has no value.
C11_Witness ==
    /\ vpc = "raised"
    /\ written_values = <<NamedValue("a", NoneVal), ExtensionMarker, NamedValue("c", NoneVal)>>
    /\ vidx = 3

(***************************************************************************)
(* Imports.__init__                                                        *)
(***************************************************************************)
\* GlobalModuleReference.__init__: a new object; id is its identity
GlobalModuleReference(id, module, oid) ==
    [k |-> "GlobalModuleReference", id |-> id, module |-> StrVal(module), oid |-> oid]

\* object.__eq__ and object.__hash__: the class defines neither, so two
\* references are the same dict key only when they are the same object
SameKey(a, b) == a.id = b.id

\* The import clauses the parser hands over: (symbols, module, oid).
ClausesAt(i) ==
    {[symbols |-> sy, module |-> mo, oid |-> NoneVal] :
        sy \in {<<Identifiers[i]>>, <<Identifiers[i], "x">>}, mo \in {"M", "N"}}

ImpInit ==
    /\ TopoIdle /\ DepIdle /\ TagIdle /\ ResIdle /\ ValIdle /\ RunIdle /\ StackIdle /\ CtrIdle
    /\ assignments = <<>>
    /\ \E n \in 0..MaxClauses :
         /\ clauses \in [1..n -> UNION {ClausesAt(i) : i \in 1..n}]
         /\ \A i \in 1..n : clauses[i] \in ClausesAt(i)
    /\ imports = <<>>
    /\ ipos = 1
    /\ ipc = "loop"

\* self.imports.setdefault(module, []).extend(symbols)
SetDefaultExtend(items, module, symbols) ==
    IF \E i \in DOMAIN items : SameKey(items[i].key, module)
    THEN [i \in DOMAIN items |->
            IF SameKey(items[i].key, module)
            THEN [items[i] EXCEPT !.value = @ \o symbols] ELSE items[i]]
    ELSE Append(items, [key |-> module, value |-> symbols])

\* for symbols, module, oid in elements
ImportClause ==
    /\ ipc = "loop" /\ ipos <= Len(clauses)
    /\ LET module == GlobalModuleReference(ipos, clauses[ipos].module, clauses[ipos].oid)
       IN  imports' = SetDefaultExtend(imports, module, clauses[ipos].symbols)
    /\ ipos' = ipos + 1
    /\ UNCHANGED <<assignments, topoVars, depVars, tagVars, resVars, valVars, runVars, clauses,
                   ipc, stackVars, ctrVars>>

ImportsReturn ==
    /\ ipc = "loop" /\ ipos > Len(clauses)
    /\ ipc' = "built"
    /\ UNCHANGED <<assignments, topoVars, depVars, tagVars, resVars, valVars, runVars, clauses,
                   imports, ipos, stackVars, ctrVars>>

ImpNext == ImportClause \/ ImportsReturn

SpecImports == ImpInit /\ [][ImpNext]_vars

\* The symbols of the clauses that name a source module, in clause order.
RECURSIVE SymbolsFrom(_, _)
SymbolsFrom(mo, i) ==
    IF i > Len(clauses) THEN <<>>
    ELSE (IF clauses[i].module = mo THEN clauses[i].symbols ELSE <<>>) \o SymbolsFrom(mo, i + 1)

SourceModules == {clauses[i].module : i \in DOMAIN clauses}

\* C15: the mapping of a built Imports node has exactly one entry for every
\* source module its clauses name, with the symbols of those clauses
\* concatenated in clause order, and as many entries as distinct source modules.
C15_ClausesMerged ==
    ipc = "built" =>
        /\ Len(imports) = Cardinality(SourceModules)
        /\ \A mo \in SourceModules :
             /\ Cardinality({i \in DOMAIN imports : imports[i].key.module = StrVal(mo)}) = 1
             /\ \A i \in DOMAIN imports :
                  imports[i].key.module = StrVal(mo) => imports[i].value = SymbolsFrom(mo, 1)

\* An Imports node built from the clauses a FROM M, b FROM N, c FROM M holds
\* two entries for M.
C15_Witness ==
    /\ ipc = "built"
    /\ clauses = <<[symbols |-> <<"a">>, module |-> "M", oid |-> NoneVal],
                   [symbols |-> <<"b">>, module |-> "N", oid |-> NoneVal],
                   [symbols |-> <<"c">>, module |-> "M", oid |-> NoneVal]>>
    /\ Len(imports) = 3
    /\ imports[1].value = <<"a">> /\ imports[3].value = <<"c">>

(***************************************************************************)
(* Termination of resolve_type_decl                                        *)
(***************************************************************************)
\* The type assignment a DefinedType or SelectionType names, as <<module,
\* name>>: none when the module or the name does not exist.
AliasTargets(self, type_decl, referenced_modules) ==
    IF type_decl.k \notin {"DefinedType", "SelectionType"} THEN {}
    ELSE LET named == IF HasAttr(type_decl, "module_name") THEN type_decl.module_name
                      ELSE NoneVal
             owners == IF named = NoneVal \/ named = StrVal(modules[self].name) THEN {self}
                       ELSE {referenced_modules[i] : i \in
                               {j \in DOMAIN referenced_modules :
                                  StrVal(modules[referenced_modules[j]].name) = named}}
         IN  {<<m, type_name(type_decl)>> : m \in
                {o \in owners : \E i \in DOMAIN modules[o].assignments :
                    modules[o].assignments[i].type_name = type_name(type_decl)}}

DeclAt(m, name) ==
    modules[m].assignments[CHOOSE i \in DOMAIN modules[m].assignments :
                              modules[m].assignments[i].type_name = name].type_decl

\* The chain of alias references from a declaration comes back to a type
\* assignment it has passed.
RECURSIVE ChainCyclic(_, _, _, _)
ChainCyclic(self, type_decl, referenced_modules, seen) ==
    LET targets == AliasTargets(self, type_decl, referenced_modules)
    IN  IF targets = {} THEN FALSE
        ELSE LET t == CHOOSE x \in targets : TRUE
             IN  \/ t \in seen
                 \/ ChainCyclic(t[1], DeclAt(t[1], t[2]), referenced_modules, seen \cup {t})

CyclicCall ==
    CallOf("resolve_type_decl") /\ ChainCyclic(1, rcall.arg, rcall.referenced_modules, {})
AcyclicCall ==
    CallOf("resolve_type_decl") /\ ~ChainCyclic(1, rcall.arg, rcall.referenced_modules, {})
RecursionExhausted == rpc = "raised" /\ rresult.k = "RecursionError"

\* C16: a call of resolve_type_decl whose chain of alias references has no
\* cycle ends, with a result or with an error of the resolver, without
\* exhausting the recursion; a call whose chain is cyclic never returns a
\* result: it recurses until the recursion is exhausted.
C16_TerminatesIffAcyclic ==
    /\ [](AcyclicCall => <>(rpc = "returned" \/ (rpc = "raised" /\ ~RecursionExhausted)))
    /\ [](CyclicCall => rpc # "returned")
    /\ [](CyclicCall => <>RecursionExhausted)

\* The call on A, with A ::= B and B ::= A, has recursed to the limit and
\* ended in RecursionError.
C16_Witness ==
    /\ RecursionExhausted
    /\ rcall.arg = DefinedType(NoneVal, "A")
    /\ modules[1].assignments[1].type_decl = DefinedType(NoneVal, "B")
    /\ modules[1].assignments[2].type_decl = DefinedType(NoneVal, "A")
    /\ rdepth = RecursionLimit

(***************************************************************************)
(* _get_next_unnamed, called by NamedType.__init__ for an unnamed member.  *)
(* Threads that build NamedTypes share the module's global counter and are *)
(* switched between the steps of the interpreter: the read of the counter, *)
(* the write of the sum, and the read for the formatting of the name.      *)
(***************************************************************************)
Threads == {1, 2}

CtrInit ==
    /\ TopoIdle /\ DepIdle /\ TagIdle /\ ResIdle /\ ValIdle /\ RunIdle /\ ImpIdle /\ StackIdle
    /\ assignments = <<>>
    /\ unnamed_counter = 0
    /\ upc = [t \in Threads |-> "idle"]
    /\ loaded = [t \in Threads |-> 0]
    /\ ucalls = [t \in Threads |-> 0]
    /\ names = <<>>
    /\ overlapped = FALSE

\* self.identifier = _get_next_unnamed(): the call begins
UnnamedCall(t) ==
    /\ upc[t] = "idle"
    /\ ucalls[t] < MaxUnnamed
    /\ upc' = [upc EXCEPT ![t] = "load"]
    /\ ucalls' = [ucalls EXCEPT ![t] = @ + 1]
    /\ overlapped' = (overlapped \/ \E u \in Threads : upc[u] # "idle")
    /\ UNCHANGED <<assignments, topoVars, depVars, tagVars, resVars, valVars, runVars, impVars,
                   stackVars, unnamed_counter, loaded, names>>

\* _unnamed_counter += 1: the read of the global
LoadCounter(t) ==
    /\ upc[t] = "load"
    /\ loaded' = [loaded EXCEPT ![t] = unnamed_counter]
    /\ upc' = [upc EXCEPT ![t] = "store"]
    /\ UNCHANGED <<assignments, topoVars, depVars, tagVars, resVars, valVars, runVars, impVars,
                   stackVars, unnamed_counter, ucalls, names, overlapped>>

\* _unnamed_counter += 1: the write of the sum
StoreCounter(t) ==
    /\ upc[t] = "store"
    /\ unnamed_counter' = loaded[t] + 1
    /\ upc' = [upc EXCEPT ![t] = "format"]
    /\ UNCHANGED <<assignments, topoVars, depVars, tagVars, resVars, valVars, runVars, impVars,
                   stackVars, loaded, ucalls, names, overlapped>>

PreviousName(counter) == <<"unnamed">> \o str(counter - 1)

\* 'unnamed%d' % _unnamed_counter
UnnamedName(counter) == <<"unnamed">> \o str(counter)

\* return 'unnamed%d' % _unnamed_counter: the global is read again
ReturnName(t) ==
    /\ upc[t] = "format"
    /\ names' = Append(names, UnnamedName(unnamed_counter))
    /\ upc' = [upc EXCEPT ![t] = "idle"]
    /\ UNCHANGED <<assignments, topoVars, depVars, tagVars, resVars, valVars, runVars, impVars,
                   stackVars, unnamed_counter, loaded, ucalls, overlapped>>

CtrNext ==
    \E t \in Threads :
        \/ UnnamedCall(t)
        \/ LoadCounter(t)
        \/ StoreCounter(t)
        \/ ReturnName(t)

SpecCounter == CtrInit /\ [][CtrNext]_vars

Quiet == \A t \in Threads : upc[t] = "idle"

\* C17: as long as no call of _get_next_unnamed has begun while another was
\* in progress, the k-th call returns unnamed followed by k, so no two calls
\* return the same name, and no increment is lost; calls of two threads that
\* overlap can return the same name and lose an increment (the witness).
C17_SequentialNames ==
    ~overlapped =>
        /\ \A k \in DOMAIN names : names[k] = <<"unnamed">> \o str(k)
        /\ \A j, k \in DOMAIN names : j # k => names[j] # names[k]
        /\ Quiet => unnamed_counter = Len(names)

\* Two threads have each made one call, the calls overlapped, both have
\* received unnamed1 and the counter stands at 1: one increment is lost.
C17_Witness ==
    /\ overlapped /\ Quiet
    /\ ucalls = [t \in Threads |-> 1]
    /\ names = <<(<<"unnamed", "1">>), (<<"unnamed", "1">>)>>
    /\ unnamed_counter = 1

====
